---- MODULE Spec2Model ----
(***************************************************************************)
(* A model of socket-link (src/socket-link.ts): newline-framed JSON        *)
(* request/response messaging over a stream socket.                        *)
(*                                                                         *)
(* Text on the wire is a sequence of lexemes.  A lexeme is the newline     *)
(* delimiter NL, a brace, the literal null, a key lexeme (a quoted member  *)
(* name with its colon) or a value lexeme (a quoted string).  A chunk      *)
(* boundary may fall between any two lexemes.                              *)
(*                                                                         *)
(* JavaScript values: undefined is Undef; a JSON object is a record over   *)
(* a subset of Keys; JSON null is Null; a JSON string primitive is         *)
(* Prim(v).                                                                *)
(***************************************************************************)
EXTENDS Integers, Sequences, FiniteSets, TLC

VARIABLES
    \* --- one Frame Reader fed from a stream (ReaderSpec); DispatchSpec
    \* --- takes the peer's stream from rdWhole and rdInput
    rdWhole,    \* the text the peer sends in all
    rdInput,    \* the part of it not delivered yet
    rdBound,    \* whether a request-id generator context is bound
    reader,     \* the generator object
    yielded,    \* the messages the consumer has received, in order
    rdEnded,    \* whether the stream has emitted 'end'
    rdMidFrame  \* whether some chunk so far has ended inside a frame

VARIABLES
    \* --- the Error Codec applied to one thrown value (CodecSpec)
    thrown,     \* the value the handler threw
    addStack,   \* opts.traceErrors
    encoded,    \* the Error-variant message as the client parses it
    raised,     \* the RemoteError the client constructs
    cpc         \* thrown | encoded | raised

VARIABLES
    \* --- one service and the clients that connect to it (Spec, FairSpec,
    \* --- DispatchSpec)
    service,      \* the net.Server made by startService
    connections,  \* the service's membership set (line 106)
    whenStops,    \* the promises whenStop() has returned
    cl,           \* per connection: the requestService invocation
    srv,          \* per connection: the socket the service accepted
    c2s,          \* per connection: chunks in flight, client to service
    s2c           \* per connection: chunks in flight, service to client

VARIABLES
    \* --- Id Generator instances invoked by a caller (CounterSpec)
    gens,       \* per instance: the function object counter() returned
    issued      \* per instance: what each invocation was given and returned

rdVars == <<rdWhole, rdInput, rdBound, reader, yielded, rdEnded, rdMidFrame>>
codecVars == <<thrown, addStack, encoded, raised, cpc>>
sysVars == <<service, connections, whenStops, cl, srv, c2s, s2c>>
ctrVars == <<gens, issued>>
vars == <<rdVars, codecVars, sysVars, ctrVars>>
notRd == <<codecVars, sysVars, ctrVars>>
notCodec == <<rdVars, sysVars, ctrVars>>
notSys == <<rdVars, codecVars, ctrVars>>
notCtr == <<rdVars, codecVars, sysVars>>

\* ------------------------------------------------------------------ bounds
MaxFrames == 2
MaxConns == 1
MaxCalls == 2
MaxStops == 2
MaxWhenStops == 1
MaxIds == 3

\* ------------------------------------------------------------- JS values
Undef == "undefined"
JNull == "null"
NL == "\n"
LB == "{"
RB == "}"
Keys == {"id", "body", "emptyResponse", "error", "type", "invalidResponse",
         "stack", "details"}
KeyOrder == <<"id", "body", "emptyResponse", "error", "type",
              "invalidResponse", "stack", "details">>

Null == [null |-> JNull]
Prim(v) == [prim |-> v]
EmptyObject == [k \in {} |-> Undef]

IsNull(m) == DOMAIN m = {"null"}
IsPrim(m) == DOMAIN m = {"prim"}
IsObject(m) == DOMAIN m \subseteq Keys

\* Property read m.f: undefined when the member is absent.  Reading a
\* member of a string primitive gives undefined as well.
Get(m, f) == IF IsObject(m) /\ f \in DOMAIN m THEN m[f] ELSE Undef

\* Object.assign(target, source): the source's members win.
Assign(target, source) == source @@ target

\* `if (x)` on a string-valued member: undefined, null and '' are falsy.
Truthy(v) == v \notin {Undef, JNull, ""}

\* ------------------------------------------------------------------ JSON
IsValueLexeme(t) == t \notin Keys \cup {NL, LB, RB}

RECURSIVE ParseMembers(_, _, _)
\* The members of an object text from lexeme j on, left to right; a
\* repeated key keeps the last value.
ParseMembers(raw, j, acc) ==
    IF j >= Len(raw) THEN acc
    ELSE ParseMembers(raw, j + 2, Assign(acc, (raw[j] :> raw[j + 1])))

IsObjectText(raw) ==
    /\ Len(raw) >= 2
    /\ raw[1] = LB
    /\ raw[Len(raw)] = RB
    /\ Len(raw) % 2 = 0
    /\ \A j \in 2..(Len(raw) - 1) :
          IF j % 2 = 0 THEN raw[j] \in Keys ELSE IsValueLexeme(raw[j])

IsValidJSON(raw) ==
    \/ IsObjectText(raw)
    \/ Len(raw) = 1 /\ IsValueLexeme(raw[1])

\* Mutant of JSONParse: the catch stores the parser's message where the raw
\* text belongs.
JSONParseNoRaw(raw) ==
    IF IsObjectText(raw)
    THEN ParseMembers(raw, 2, EmptyObject)
    ELSE IF Len(raw) = 1 /\ raw[1] = JNull THEN Null
    ELSE IF Len(raw) = 1 /\ IsValueLexeme(raw[1]) THEN Prim(raw[1])
    ELSE [error |-> "Unexpected token", type |-> "SyntaxError",
          invalidResponse |-> <<"Unexpected token">>]

\* JSON.parse(rawBody), wrapped as line 66-67 does: a SyntaxError becomes
\* the Error-variant message carrying the raw text.
JSONParse(raw) ==
    IF IsObjectText(raw)
    THEN ParseMembers(raw, 2, EmptyObject)
    ELSE IF Len(raw) = 1 /\ raw[1] = JNull THEN Null
    ELSE IF Len(raw) = 1 /\ IsValueLexeme(raw[1]) THEN Prim(raw[1])
    ELSE [error |-> "Unexpected token", type |-> "SyntaxError",
          invalidResponse |-> raw]

RECURSIVE StringifyMembers(_, _)
StringifyMembers(m, j) ==
    IF j > Len(KeyOrder) THEN <<>>
    ELSE (IF KeyOrder[j] \in DOMAIN m /\ m[KeyOrder[j]] # Undef
          THEN <<KeyOrder[j], m[KeyOrder[j]]>> ELSE <<>>)
         \o StringifyMembers(m, j + 1)

\* JSON.stringify(message): members whose value is undefined are dropped.
JSONStringify(m) ==
    IF IsNull(m) THEN <<JNull>>
    ELSE IF IsPrim(m) THEN <<m.prim>>
    ELSE <<LB>> \o StringifyMembers(m, 1) \o <<RB>>

\* ----------------------------------------------------------- Id Generator
Digits == <<"0", "1", "2", "3", "4", "5", "6", "7", "8", "9",
            "a", "b", "c", "d", "e", "f">>

RECURSIVE RadixDigits(_, _)
\* The digits of count.toString(radix), most significant first.
RadixDigits(n, radix) ==
    IF n < radix THEN <<n>>
    ELSE Append(RadixDigits(n \div radix, radix), n % radix)

RECURSIVE Rendered(_)
\* The digits as the characters toString writes for them.
Rendered(ds) ==
    IF ds = <<>> THEN ""
    ELSE Rendered(SubSeq(ds, 1, Len(ds) - 1)) \o Digits[ds[Len(ds)] + 1]

\* count.toString(radix)
ToRadix(n, radix) == Rendered(RadixDigits(n, radix))

\* prefix ? prefix + join : ''   (join has its default, '.')
Lead(prefix) == IF prefix # "" /\ prefix # Undef THEN prefix \o "." ELSE ""

\* counter(radix): the id returned for `prefix` when the count is `count`
\* (the count is then incremented by the caller of this operator).
CounterId(prefix, count, radix) == Lead(prefix) \o ToRadix(count, radix)

\* counter(radix): the function object, with its own count property.
counter(radix) == [radix |-> radix, count |-> 0]

\* An invocation that would hand out the count without incrementing it.
CounterCallNoIncrement(gen, prefix) ==
    [gen |-> gen,
     id |-> CounterId(prefix, gen.count, gen.radix),
     digits |-> RadixDigits(gen.count, gen.radix)]

\* One invocation gen(prefix): result.count++ hands out the old count and
\* leaves the count one greater on this function object.
CounterCall(gen, prefix) ==
    [gen |-> [gen EXCEPT !.count = @ + 1],
     id |-> CounterId(prefix, gen.count, gen.radix),
     digits |-> RadixDigits(gen.count, gen.radix)]

\* ----------------------------------------------------------- Frame Reader
RECURSIVE SplitNL(_, _)
\* data.split('\n'), with `cur` the piece being collected.
SplitNL(data, cur) ==
    IF data = <<>> THEN <<cur>>
    ELSE IF Head(data) = NL THEN <<cur>> \o SplitNL(Tail(data), <<>>)
    ELSE SplitNL(Tail(data), Append(cur, Head(data)))

RECURSIVE Join(_)
\* buffer.join('')
Join(pieces) ==
    IF pieces = <<>> THEN <<>> ELSE Head(pieces) \o Join(Tail(pieces))

\* A messagesReader generator object before its first next().
\*   pc      start | await (suspended in Promise.race, 'data' and 'end'
\*           listeners registered) | yield (suspended at the yield) |
\*           done | threw
\*   buffer  the pieces accumulated since the last delimiter
\*   chunks, i   the split chunk being walked and the (1-based) index
\*   value   the message handed over at the yield
\*   count   the count of the bound request-id generator
NewReader ==
    [pc |-> "start", buffer |-> <<>>, chunks |-> <<>>, i |-> 0,
     value |-> Null, count |-> 0]

\* Lines 63-69: the message made of one raw frame.
FrameMessage(rawBody) ==
    IF Len(rawBody) = 0 THEN [body |-> JNull, emptyResponse |-> "true"]
    ELSE JSONParse(rawBody)

\* Line 69: `message && this && this.reqestIdGenerator`.
TakesId(message, bound) ==
    /\ ~IsNull(message)
    /\ ~(IsPrim(message) /\ ~Truthy(message.prim))
    /\ bound

RECURSIVE ReaderLoop(_, _, _)
\* The for loop of lines 60-73 from index r.i on, up to the next yield,
\* the next await, or a raise.  Assigning a member of a string primitive
\* raises a TypeError (module code is strict).
ReaderLoop(r, bound, socketId) ==
    IF r.i > Len(r.chunks)
    THEN [r EXCEPT !.pc = "await", !.chunks = <<>>, !.i = 0, !.value = Null]
    ELSE LET pushed == Append(r.buffer, r.chunks[r.i])
         IN  IF r.i < Len(r.chunks)
             THEN LET rawBody == Join(pushed)
                      message == FrameMessage(rawBody)
                  IN  IF ~TakesId(message, bound)
                      THEN [r EXCEPT !.buffer = <<>>, !.pc = "yield",
                                     !.value = message]
                      ELSE IF IsPrim(message)
                      THEN [r EXCEPT !.buffer = <<>>, !.pc = "threw",
                                     !.value = Null, !.count = @ + 1,
                                     !.chunks = <<>>, !.i = 0]
                      ELSE [r EXCEPT !.buffer = <<>>, !.pc = "yield",
                                     !.count = @ + 1,
                                     !.value = Assign(message,
                                        [id |-> CounterId(socketId, r.count, 16)])]
             ELSE ReaderLoop([r EXCEPT !.buffer = pushed, !.i = @ + 1],
                             bound, socketId)

\* reader.next(): start the generator, or resume it after a yield.
ReaderNext(r, bound, socketId) ==
    CASE r.pc = "start" -> [r EXCEPT !.pc = "await"]
      [] r.pc = "yield" -> ReaderLoop([r EXCEPT !.i = @ + 1], bound, socketId)
      [] OTHER -> r

\* Mutant of ReaderOnData: the buffer is declared inside the while loop, so
\* a partial frame is forgotten at every chunk.
ReaderOnDataFreshBuffer(r, data, bound, socketId) ==
    CHOOSE out \in { ReaderLoop(fed, bound, socketId) :
                       fed \in {[r EXCEPT !.chunks = SplitNL(data, <<>>),
                                          !.i = 1, !.buffer = <<>>]} } : TRUE

\* The 'data' event while the generator is suspended in the race: line 59
\* splits the chunk, and the for loop walks the pieces (`fed` is bound in a
\* set so that the split is evaluated once).
ReaderOnData(r, data, bound, socketId) ==
    CHOOSE out \in { ReaderLoop(fed, bound, socketId) :
                       fed \in {[r EXCEPT !.chunks = SplitNL(data, <<>>),
                                          !.i = 1]} } : TRUE

\* The 'end' event while the generator is suspended in the race.
ReaderOnEnd(r) == [r EXCEPT !.pc = "done", !.value = Null]

\* ------------------------------------------------------------ Error Codec
\* A thrown value: t is what `instanceof` and `typeof` tell of it.
\*   Error          an Error that is no ErrorResponse (name, message, stack)
\*   ErrorResponse  an ErrorResponse (name "Error", message, details)
\*   string         a string (message is the string)
\*   object         a truthy value with toString (message is its toString(),
\*                  details its JSON form)
\*   other          anything else (details is its JSON form)
ThrownError(name, message) ==
    [t |-> "Error", name |-> name, message |-> message,
     stack |-> name \o ": " \o message \o " at handler", details |-> Undef]
ThrownErrorResponse(message, details) ==
    [t |-> "ErrorResponse", name |-> "Error", message |-> message,
     stack |-> "Error: " \o message \o " at handler", details |-> details]
ThrownString(str) ==
    [t |-> "string", name |-> Undef, message |-> str, stack |-> Undef,
     details |-> Undef]
ThrownObject(text, json) ==
    [t |-> "object", name |-> Undef, message |-> text, stack |-> Undef,
     details |-> json]
ThrownOther(json) ==
    [t |-> "other", name |-> Undef, message |-> Undef, stack |-> Undef,
     details |-> json]

\* asMessageError(e, addStack), lines 155-166.
asMessageError(e, withStack) ==
    IF e.t \in {"Error", "ErrorResponse"}
    THEN LET response == [error |-> e.message, type |-> e.name]
         IN  IF e.t = "ErrorResponse"
             THEN Assign(response, [details |-> e.details])
             ELSE IF withStack THEN Assign(response, [stack |-> e.stack])
             ELSE response
    ELSE IF e.t = "string" THEN [error |-> e.message, type |-> "string"]
    ELSE IF e.t = "object"
    THEN [error |-> e.message, type |-> "object", details |-> e.details]
    ELSE [error |-> "unknown error", type |-> "unknown", details |-> e.details]

\* m.f of any record, undefined when absent.
Member(m, f) == IF f \in DOMAIN m THEN m[f] ELSE Undef

\* new RemoteError(message), lines 36-43: name is Error.prototype.name.
RemoteError(m) ==
    LET error == Member(m, "error")
        stack == Member(m, "stack")
        rest == [k \in DOMAIN m \ {"error", "stack"} |-> m[k]]
        name == "Error"
    IN  Assign([name |-> name,
                message |-> IF error = Undef THEN "" ELSE error,
                stack |-> IF Truthy(stack) THEN name \o ": " \o stack ELSE ""],
               rest)

\* ----------------------------------------------------------------- Caller
\* How a promise has settled.
Pending == [kind |-> "pending", value |-> Undef, err |-> Null]
Resolved(v) == [kind |-> "resolved", value |-> v, err |-> Null]
Raised(e) == [kind |-> "raised", value |-> Undef, err |-> e]

\* Lines 226-230 without the test of line 227: the value of a generator
\* that is done is undefined, and reading its member raises a TypeError.
CallOutcomeWithoutDone(r) ==
    IF r.pc = "done" \/ IsNull(r.value)
    THEN Raised([name |-> "TypeError", message |-> "Cannot read property",
                 stack |-> ""])
    ELSE IF Truthy(Get(r.value, "error")) THEN Raised(RemoteError(r.value))
    ELSE Resolved(Get(r.value, "body"))

\* Lines 226-230: what a call settles with once reader.next() has
\* settled with the generator at `r`.  Reading a member of null raises a
\* TypeError.
CallOutcome(r) ==
    IF r.pc = "done" THEN Resolved(JNull)
    ELSE IF IsNull(r.value)
    THEN Raised([name |-> "TypeError", message |-> "Cannot read property",
                 stack |-> ""])
    ELSE IF Truthy(Get(r.value, "error")) THEN Raised(RemoteError(r.value))
    ELSE Resolved(Get(r.value, "body"))

\* The frame line 225 writes.
RequestChunk(body) == JSONStringify([body |-> body]) \o <<NL>>

\* The marker of the FIN a socket's end() sends.
Fin == <<"<FIN>">>

\* A requestService invocation that has not been made yet.
\*   shape    single | driver | interactive (callerOrBody), with payload
\*            the body of the single shape
\*   pc       init | connecting (line 212) | calling (a call awaits
\*            reader.next()) | driver (the driver runs, no call is
\*            outstanding) | prompt (the adapter awaits line or close) |
\*            closing (line 233) | returned | killed (the process of
\*            the invocation is gone)
\*   calls    the calls made: body and outcome
\*   result   what the caller settled with; what requestService settles
\*            with once pc is returned
\*   wEnded, rEnded, closed   the client socket: end() was called, 'end'
\*            was emitted, 'close' was emitted
\*   rlClosed the line source has emitted 'close'; closedFirst tells which
\*            closed while the other was open: none | rl | connection
\*   notices  how many times the notice of line 184 has been printed
NewClient ==
    [shape |-> "none", payload |-> Undef, pc |-> "init",
     isConnected |-> FALSE, callerInvoked |-> FALSE, reader |-> NewReader,
     calls |-> <<>>, result |-> Pending,
     wEnded |-> FALSE, rEnded |-> FALSE, closed |-> FALSE,
     rlClosed |-> FALSE, closedFirst |-> "none", notices |-> 0]

\* Lines 232-234 once the caller has settled with `settled`: a raise leaves
\* requestService at the await of line 224; otherwise the socket is ended
\* and the close awaited.
Finish(client, settled) ==
    IF settled.kind = "raised"
    THEN [client EXCEPT !.pc = "returned", !.result = settled]
    ELSE [client EXCEPT !.pc = "closing", !.result = settled, !.wEnded = TRUE]

\* The continuation of the caller once the outstanding call has settled.
AfterCall(client, outcome) ==
    LET logged == [client EXCEPT !.calls[Len(client.calls)].outcome = outcome]
    IN  CASE client.shape = "single" -> Finish(logged, outcome)
          [] client.shape = "driver" -> [logged EXCEPT !.pc = "driver"]
          [] OTHER -> [logged EXCEPT !.pc = "prompt"]

\* call(body) answering from the message the generator already holds.
CallWithoutNext(client, body) ==
    LET r == IF client.reader.pc = "yield" THEN client.reader
             ELSE ReaderNext(client.reader, FALSE, Undef)
        called == [client EXCEPT !.reader = r, !.pc = "calling",
                                 !.calls = Append(@, [body |-> body,
                                                      outcome |-> Pending])]
    IN  IF r.pc \in {"yield", "done"} THEN AfterCall(called, CallOutcome(r))
        ELSE called

\* call(body), lines 224-226, but for the write: the request is logged and
\* reader.next() is called; a message the generator still holds settles the
\* call at once, and so does a generator that is done.
Call(client, body) ==
    LET r == ReaderNext(client.reader, FALSE, Undef)
        called == [client EXCEPT !.reader = r, !.pc = "calling",
                                 !.calls = Append(@, [body |-> body,
                                                      outcome |-> Pending])]
    IN  IF r.pc \in {"yield", "done"} THEN AfterCall(called, CallOutcome(r))
        ELSE called

\* Lines 212-224 with the test of line 223 left out.
AfterConnectUnchecked(client, isConnected) ==
    LET invoked == [client EXCEPT !.isConnected = isConnected,
                                  !.callerInvoked = TRUE]
    IN  CASE client.shape = "single" -> Call(invoked, client.payload)
          [] client.shape = "driver" -> [invoked EXCEPT !.pc = "driver"]
          [] OTHER -> [invoked EXCEPT !.pc = "prompt"]

\* Lines 212-224 once the race of line 212 has settled.
AfterConnect(client, isConnected) ==
    IF ~isConnected
    THEN [client EXCEPT !.pc = "returned", !.result = Resolved(Undef)]
    ELSE LET invoked == [client EXCEPT !.isConnected = TRUE,
                                       !.callerInvoked = TRUE]
         IN  CASE client.shape = "single" -> Call(invoked, client.payload)
               [] client.shape = "driver" -> [invoked EXCEPT !.pc = "driver"]
               [] OTHER -> [invoked EXCEPT !.pc = "prompt"]

\* ---------------------------------------------------------------- Service
ServiceId == "s"
TraceErrors == FALSE

\* What the handler does with a request.
Return(v) == [kind |-> "return", value |-> v, thrown |-> ThrownOther(Undef)]
Throw(e) == [kind |-> "throw", value |-> Undef, thrown |-> e]

\* Lines 143-145: the response made of the handler's outcome.
HandlerResponse(outcome, traceErrors) ==
    IF outcome.kind = "return" THEN [body |-> outcome.value]
    ELSE asMessageError(outcome.thrown, traceErrors)

\* The socket of a connection that has not been accepted yet.
\*   loop     none | running | ended | dead: the `for await` loop of lines
\*            141-148 (dead: it ended by a raise)
\*   handled  the requests the handler was invoked with and its outcomes
\*   refused  the sendResult writes made after end() had been called
NewSocket ==
    [accepted |-> FALSE, id |-> "", reader |-> NewReader, loop |-> "none",
     handled |-> <<>>, wEnded |-> FALSE, rEnded |-> FALSE, closed |-> FALSE,
     refused |-> 0]

\* One iteration of the loop body, lines 143-147, on the request the
\* generator has yielded, the handler doing `outcome`: the socket after it
\* and the text written.  `request.id` of a null request raises outside the
\* try: the loop ends without a response.
DispatchStep(sock, outcome) ==
    LET request == sock.reader.value
        invoked == [sock EXCEPT !.handled = Append(@, [request |-> request,
                                                       outcome |-> outcome])]
    IN  IF IsNull(request)
        THEN [sock |-> [invoked EXCEPT !.loop = "dead"], out |-> <<>>]
        ELSE LET response ==
                     Assign([id |-> Get(request, "id")],
                            HandlerResponse(outcome, TraceErrors))
                 r == ReaderNext(sock.reader, TRUE, sock.id)
             IN  [sock |-> [invoked EXCEPT !.reader = r,
                               !.loop = IF r.pc = "threw" THEN "dead" ELSE @],
                  out |-> JSONStringify(response) \o <<NL>>]

\* ======================================================================
\* ReaderSpec: one Frame Reader consumed by a `for await` loop, fed with a
\* stream cut into chunks at arbitrary places.
\* ======================================================================
RdSocketId == "s.0"

RdFrames ==
    { <<>>,                         \* heartbeat
      <<LB, "body", "a", RB>>,      \* a request object
      <<JNull>>,                    \* the JSON value null
      <<"a">>,                      \* a JSON string primitive
      <<LB, "body">>,               \* malformed: truncated object
      <<RB, LB>> }                  \* malformed

RdPartials == { <<>>, <<LB>> }

RECURSIVE RdTerminated(_)
\* The streams of at most n newline-terminated frames.
RdTerminated(n) ==
    IF n = 0 THEN { <<>> }
    ELSE LET shorter == RdTerminated(n - 1)
         IN  shorter \cup { f \o <<NL>> \o s : f \in RdFrames, s \in shorter }

RdStreams == { s \o p : s \in RdTerminated(MaxFrames), p \in RdPartials }

RdIdle ==
    /\ rdWhole = <<>>
    /\ rdInput = <<>>
    /\ rdBound = FALSE
    /\ reader = NewReader
    /\ yielded = <<>>
    /\ rdEnded = FALSE
    /\ rdMidFrame = FALSE

RdInit ==
    /\ rdWhole \in RdStreams
    /\ rdInput = rdWhole
    /\ rdBound \in BOOLEAN
    /\ reader = NewReader
    /\ yielded = <<>>
    /\ rdEnded = FALSE
    /\ rdMidFrame = FALSE

\* What the consumer holds after the generator has run to `r`.
Received(r) == IF r.pc = "yield" THEN Append(yielded, r.value) ELSE yielded

\* The consumer's next(): the first one, or the one after a yield.
RdPull ==
    /\ reader.pc \in {"start", "yield"}
    /\ reader' = ReaderNext(reader, rdBound, RdSocketId)
    /\ yielded' = Received(reader')
    /\ UNCHANGED <<rdWhole, rdInput, rdBound, rdEnded, rdMidFrame>>
    /\ UNCHANGED notRd

\* The socket emits 'data' with the next k lexemes of the stream.
RdData(k) ==
    /\ reader.pc = "await"
    /\ ~rdEnded
    /\ k \in 1..Len(rdInput)
    /\ reader' = ReaderOnData(reader, SubSeq(rdInput, 1, k), rdBound, RdSocketId)
    /\ rdInput' = SubSeq(rdInput, k + 1, Len(rdInput))
    /\ yielded' = Received(reader')
    /\ rdMidFrame' = (rdMidFrame \/ SubSeq(rdInput, 1, k)[k] # NL)
    /\ UNCHANGED <<rdWhole, rdBound, rdEnded>>
    /\ UNCHANGED notRd

\* The socket emits 'end' once everything has been delivered.
RdEnd ==
    /\ reader.pc = "await"
    /\ ~rdEnded
    /\ rdInput = <<>>
    /\ rdEnded' = TRUE
    /\ reader' = ReaderOnEnd(reader)
    /\ UNCHANGED <<rdWhole, rdInput, rdBound, yielded, rdMidFrame>>
    /\ UNCHANGED notRd

RdNext ==
    \/ RdPull
    \/ \E k \in 1..Len(rdInput) : RdData(k)
    \/ RdEnd


\* ---------------------------------------------------------------- claims
\* The text delivered so far, and the raw frames it completes: the text
\* between consecutive delimiters.
RdFed == SubSeq(rdWhole, 1, Len(rdWhole) - Len(rdInput))

RECURSIVE RawFrames(_, _)
RawFrames(text, cur) ==
    IF text = <<>> THEN <<>>
    ELSE IF Head(text) = NL THEN <<cur>> \o RawFrames(Tail(text), <<>>)
    ELSE RawFrames(Tail(text), Append(cur, Head(text)))

Malformed(raw) == raw # <<>> /\ ~IsValidJSON(raw)
RaisesOnId(raw) ==
    rdBound /\ Len(raw) = 1 /\ IsValueLexeme(raw[1]) /\ Truthy(raw[1])
WithoutId(m) == [k \in DOMAIN m \ {"id"} |-> m[k]]

\* C9: a non-empty raw frame that is not valid JSON never makes the Frame
\* Reader raise; it is yielded as an Error-variant message whose
\* invalidResponse is the exact raw text, and the sequence goes on: the
\* frames after it are yielded too (a raise can only come from a string
\* primitive frame under a bound id generator, never from malformed text).
C9_MalformedFrameYielded ==
    LET frames == RawFrames(RdFed, <<>>)
    IN  /\ Len(yielded) <= Len(frames)
        /\ \A j \in 1..Len(yielded) :
              Malformed(frames[j]) =>
                 /\ {"error", "type", "invalidResponse"} \subseteq DOMAIN yielded[j]
                 /\ yielded[j].invalidResponse = frames[j]
                 /\ "body" \notin DOMAIN yielded[j]
        /\ reader.pc = "threw" =>
              /\ Len(yielded) < Len(frames)
              /\ RaisesOnId(frames[Len(yielded) + 1])
        /\ (reader.pc = "await" /\ \A j \in 1..Len(frames) : ~RaisesOnId(frames[j])) =>
              /\ Len(yielded) = Len(frames)
              /\ \A j \in 1..Len(frames) :
                    IsObjectText(frames[j]) =>
                       WithoutId(yielded[j]) = WithoutId(JSONParse(frames[j]))

C9_Witness ==
    LET frames == RawFrames(RdFed, <<>>)
    IN  /\ reader.pc = "await"
        /\ rdMidFrame
        /\ \E j, k \in 1..Len(yielded) :
              /\ j < k
              /\ Malformed(frames[j])
              /\ yielded[j].invalidResponse = frames[j]
              /\ IsObjectText(frames[k])
              /\ Get(yielded[k], "body") = "a"

RECURSIVE Drain(_, _, _)
\* Pull until the generator stops yielding.
Drain(r, bound, acc) ==
    IF r.pc = "yield"
    THEN Drain(ReaderNext(r, bound, RdSocketId), bound, Append(acc, r.value))
    ELSE [pc |-> r.pc, yielded |-> acc]

\* The whole stream delivered as one chunk.
WholeRun(whole, bound) ==
    Drain(ReaderOnData(ReaderNext(NewReader, bound, RdSocketId), whole,
                       bound, RdSocketId),
          bound, <<>>)

RdTerminatedStream(w) == w # <<>> /\ w[Len(w)] = NL

\* C10: for a newline-terminated stream, whatever the places it is cut
\* into chunks at, the reader has yielded, once all chunks are in, exactly
\* the messages it yields when the stream arrives as a single chunk.
C10_ChunkingInvariant ==
    (rdInput = <<>> /\ reader.pc \in {"await", "threw", "done"}
        /\ RdTerminatedStream(rdWhole)) =>
       LET w == WholeRun(rdWhole, rdBound)
       IN  /\ yielded = w.yielded
           /\ (reader.pc = "threw") = (w.pc = "threw")

C10_Witness ==
    /\ rdInput = <<>>
    /\ reader.pc = "await"
    /\ RdTerminatedStream(rdWhole)
    /\ rdMidFrame
    /\ Len(yielded) >= 2
    /\ Get(yielded[2], "body") = "a"

\* C13: whenever the Frame Reader is not in the middle of a chunk, it has
\* yielded exactly one message for each delimiter delivered so far, in
\* stream order: the heartbeat for an empty raw frame, and for any other
\* frame what lines 65-68 make of its text; the text after the last
\* delimiter has made no message, also once the stream has ended.
C13_OneMessagePerDelimiter ==
    LET frames == RawFrames(RdFed, <<>>)
    IN  /\ Len(yielded) <= Len(frames)
        /\ reader.pc \in {"await", "done", "threw"} =>
              Len(yielded) = Len(frames)
        /\ \A j \in 1..Len(yielded) :
              /\ frames[j] = <<>> =>
                    WithoutId(yielded[j])
                       = [body |-> JNull, emptyResponse |-> "true"]
              /\ WithoutId(yielded[j]) = WithoutId(FrameMessage(frames[j]))

\* C14: under a bound request-id generator every message the Frame Reader
\* yields, whatever the frame was, carries an id, and the id of the j-th
\* message is the j-th id of the generator: the ids are pairwise distinct
\* and in arrival order.
C14_EveryMessageTakesNextId ==
    rdBound =>
       \A j \in 1..Len(yielded) :
          /\ "id" \in DOMAIN yielded[j]
          /\ yielded[j].id = CounterId(RdSocketId, j - 1, 16)

\* ======================================================================
\* CodecSpec: one thrown value encoded by the service, sent as a frame,
\* parsed and decoded by the client.
\* ======================================================================
Messages == {"", "boom", "bad"}
ErrorNames == {"Error", "TypeError"}

ThrownValues ==
    { ThrownError(n, m) : n \in ErrorNames, m \in Messages }
    \cup { ThrownErrorResponse(m, d) : m \in Messages, d \in {Undef, "d1"} }
    \cup { ThrownString(m) : m \in Messages }
    \cup { ThrownObject("[object Object]", "o1") }
    \cup { ThrownOther(j) : j \in {Undef, JNull} }

CodecIdle ==
    /\ thrown = ThrownOther(Undef)
    /\ addStack = FALSE
    /\ encoded = Null
    /\ raised = Null
    /\ cpc = "idle"

CodecInit ==
    /\ thrown \in ThrownValues
    /\ addStack \in BOOLEAN
    /\ encoded = Null
    /\ raised = Null
    /\ cpc = "thrown"

\* Line 145 and sendResult: the response is encoded and serialized; the
\* client's reader parses the frame.
CodecEncode ==
    /\ cpc = "thrown"
    /\ encoded' = JSONParse(JSONStringify(asMessageError(thrown, addStack)))
    /\ cpc' = "encoded"
    /\ UNCHANGED <<thrown, addStack, raised>>
    /\ UNCHANGED notCodec

\* Line 228: the client constructs the failure it raises.
CodecDecode ==
    /\ cpc = "encoded"
    /\ raised' = RemoteError(encoded)
    /\ cpc' = "raised"
    /\ UNCHANGED <<thrown, addStack, encoded>>
    /\ UNCHANGED notCodec

CodecNext == CodecEncode \/ CodecDecode


\* C6: encoding a thrown failure and decoding the resulting message
\* preserves it: the raised failure has the thrown failure's message, its
\* kind name as type, its details, and, when a stack was sent, a trace
\* that is the sent stack prefixed with that kind.
C6_ErrorFidelity ==
    (cpc = "raised" /\ thrown.t \in {"Error", "ErrorResponse"}) =>
        /\ raised.message = thrown.message
        /\ Member(raised, "type") = thrown.name
        /\ Member(raised, "details") = thrown.details
        /\ "stack" \in DOMAIN encoded =>
              raised.stack = thrown.name \o ": " \o encoded.stack

\* ======================================================================
\* Spec: one service with a handler, and the requestService invocations
\* that connect to it.
\* ======================================================================
Conns == 1..MaxConns
Promises == 1..MaxWhenStops
Bodies == <<"a", "b">>
Shapes == {"single", "driver", "interactive"}
HandlerOutcomes ==
    { Return("ok"), Throw(ThrownErrorResponse("bad", "d1")),
      Throw(ThrownError("Error", "")) }

\* The body of a client's next request: consecutive requests differ.
NextBody(client) == Bodies[(Len(client.calls) % Len(Bodies)) + 1]

\* The calls made so far, over all connections.
CallsMade == LET RECURSIVE Sum(_)
                 Sum(n) == IF n = 0 THEN 0 ELSE Len(cl[n].calls) + Sum(n - 1)
             IN  Sum(MaxConns)

\* service: the listener and its 'close'/'stop' events.
\*   listening       the listening handle is open
\*   closeCbs        the callbacks close() has registered for 'close'
\*   closeScheduled  an emission of 'close' is scheduled
\*   stops           how many times 'stop' has been emitted
\*   stopCalls       how many times stop() has been invoked
\*   connCount       the count of connectionIdGenerator
\*   stopped         the membership set as it was at the first stop()
\*   exited          the process has exited on an uncaught exception
SysInit ==
    /\ service = [listening |-> TRUE, closeCbs |-> 0, closeScheduled |-> FALSE,
                  stops |-> 0, stopCalls |-> 0, connCount |-> 0,
                  stopped |-> {}, exited |-> FALSE]
    /\ connections = {}
    /\ whenStops = [p \in Promises |-> "none"]
    /\ cl = [c \in Conns |-> NewClient]
    /\ srv = [c \in Conns |-> NewSocket]
    /\ c2s = [c \in Conns |-> <<>>]
    /\ s2c = [c \in Conns |-> <<>>]

SysIdle ==
    /\ service = [listening |-> FALSE, closeCbs |-> 0, closeScheduled |-> FALSE,
                  stops |-> 0, stopCalls |-> 0, connCount |-> 0,
                  stopped |-> {}, exited |-> FALSE]
    /\ connections = {}
    /\ whenStops = <<>>
    /\ cl = <<>>
    /\ srv = <<>>
    /\ c2s = <<>>
    /\ s2c = <<>>

\* A `for await` iteration of some connection is under way: it runs to its
\* next await before the event loop takes any other event.
Busy == \E c \in Conns : srv[c].loop = "running" /\ srv[c].reader.pc = "yield"

\* net.Server: 'close' is emitted once the handle is closed and every
\* accepted socket has closed.
Drained(svc, socks) ==
    ~svc.listening /\ \A c \in Conns : socks[c].accepted => socks[c].closed

\* What is in flight once a socket has gone from `before` to `after`: its
\* end() sends a FIN, once.
SendFin(queue, before, after) ==
    IF after.wEnded /\ ~before.wEnded THEN Append(queue, Fin) ELSE queue

\* A listener that would print the notice at every 'close' of the line
\* source.
NoticeAtEveryClose(client) == IF client.callerInvoked THEN 1 ELSE 0

\* Lines 181-185: the notices printed when the line source emits 'close'.
\* The listener is there once the adapter has been invoked, and prints if
\* whenEnd is null by then: line 178 has run, the socket has closed.
Notice(client) == IF client.callerInvoked /\ client.closed THEN 1 ELSE 0

\* Lines 178 and 191-197: the client socket's 'close' resolves whenEnd,
\* which closes the line source (createReply has registered that at line
\* 220, connected or not); close() on a line source already closed emits
\* nothing.  An adapter awaiting line or close breaks out of its loop and
\* resolves.
OnClose(client) ==
    IF client.shape = "interactive" /\ ~client.rlClosed
    THEN LET shut == [client EXCEPT !.rlClosed = TRUE,
                                    !.closedFirst = "connection",
                                    !.notices = @ + Notice(client)]
         IN  IF client.pc = "prompt" THEN Finish(shut, Resolved(Undef))
             ELSE shut
    ELSE client

\* requestService(on, callerOrBody) is invoked: line 205.
ClientStart(c, shape) ==
    /\ ~Busy
    /\ cl[c].pc = "init"
    /\ cl' = [cl EXCEPT ![c] = [@ EXCEPT !.shape = shape, !.pc = "connecting",
                                        !.payload = NextBody(cl[c])]]
    /\ UNCHANGED <<service, connections, whenStops, srv, c2s, s2c>>
    /\ UNCHANGED notSys

\* The service accepts the connection (lines 109-128, and the first next()
\* of the loop of line 142); the client's 'connect' settles the race.
Connect(c) ==
    /\ ~Busy
    /\ cl[c].pc = "connecting"
    /\ service.listening
    /\ connections' = connections \cup {c}
    /\ srv' = [srv EXCEPT ![c] =
                  [@ EXCEPT !.accepted = TRUE,
                            !.id = CounterId(ServiceId, service.connCount, 16),
                            !.reader = ReaderNext(NewReader, TRUE, ""),
                            !.loop = "running"]]
    /\ service' = [service EXCEPT !.connCount = @ + 1]
    /\ cl' = [cl EXCEPT ![c] = AfterConnect(@, TRUE)]
    /\ c2s' = [c2s EXCEPT ![c] =
                  IF cl[c].shape = "single"
                  THEN Append(@, RequestChunk(cl[c].payload)) ELSE @]
    /\ UNCHANGED <<whenStops, s2c>>
    /\ UNCHANGED notSys

\* The connect attempt fails: 'error', then 'close', on the client socket.
ConnectFail(c) ==
    /\ ~Busy
    /\ cl[c].pc = "connecting"
    /\ cl' = [cl EXCEPT ![c] =
                OnClose([AfterConnect(@, FALSE) EXCEPT !.closed = TRUE])]
    /\ UNCHANGED <<service, connections, whenStops, srv, c2s, s2c>>
    /\ UNCHANGED notSys

\* The driver issues its next call.
DriverCall(c) ==
    /\ ~Busy
    /\ cl[c].pc = "driver"
    /\ CallsMade < MaxCalls
    /\ cl' = [cl EXCEPT ![c] = Call(@, NextBody(cl[c]))]
    /\ c2s' = [c2s EXCEPT ![c] =
                  IF cl[c].wEnded THEN @
                  ELSE Append(@, RequestChunk(NextBody(cl[c])))]
    /\ UNCHANGED <<service, connections, whenStops, srv, s2c>>
    /\ UNCHANGED notSys

\* The driver settles: it returns, or it raises.
DriverSettle(c, settled) ==
    /\ ~Busy
    /\ cl[c].pc = "driver"
    /\ cl' = [cl EXCEPT ![c] = Finish(@, settled)]
    /\ c2s' = [c2s EXCEPT ![c] = SendFin(@, cl[c], cl'[c])]
    /\ UNCHANGED <<service, connections, whenStops, srv, s2c>>
    /\ UNCHANGED notSys

\* The line source emits a line while the adapter awaits one (line 190).
RlLine(c) ==
    /\ ~Busy
    /\ cl[c].pc = "prompt"
    /\ ~cl[c].rlClosed
    /\ CallsMade < MaxCalls
    /\ cl' = [cl EXCEPT ![c] = Call(@, NextBody(cl[c]))]
    /\ c2s' = [c2s EXCEPT ![c] =
                  IF cl[c].wEnded THEN @
                  ELSE Append(@, RequestChunk(NextBody(cl[c])))]
    /\ UNCHANGED <<service, connections, whenStops, srv, s2c>>
    /\ UNCHANGED notSys

\* The line source once the operator has closed it: the listener of line
\* 181 runs; an adapter awaiting line or close (line 191) breaks out of its
\* loop and resolves, one that awaits something else hears nothing.
RlClosed(client) ==
    LET shut == [client EXCEPT !.rlClosed = TRUE,
                               !.closedFirst = "rl",
                               !.notices = @ + Notice(client)]
    IN  IF client.pc = "prompt" THEN Finish(shut, Resolved(Undef)) ELSE shut

\* The operator closes the line source, at any moment of the invocation.
RlClose(c) ==
    /\ ~Busy
    /\ cl[c].shape = "interactive"
    /\ cl[c].pc \in {"connecting", "prompt", "calling"}
    /\ ~cl[c].rlClosed
    /\ cl' = [cl EXCEPT ![c] = RlClosed(@)]
    /\ c2s' = [c2s EXCEPT ![c] = SendFin(@, cl[c], cl'[c])]
    /\ UNCHANGED <<service, connections, whenStops, srv, s2c>>
    /\ UNCHANGED notSys

\* The client's generator once its socket has taken `chunk` from the
\* service.  A chunk of text is 'data', a FIN is 'end'; the generator hears
\* either only while it is suspended in the race.
ClientReaderHears(r, chunk) ==
    IF r.pc # "await" THEN r
    ELSE IF chunk = Fin THEN ReaderOnEnd(r)
    ELSE ReaderOnData(r, chunk, FALSE, Undef)

\* What becomes of a requestService invocation whose socket has taken
\* `chunk`, its generator being at `r` now: an outstanding call settles
\* (lines 226-230); on a FIN the socket (allowHalfOpen is off) ends its own
\* side and closes.
ClientHear(client, r, chunk) ==
    LET heard == [client EXCEPT !.reader = r]
        settled == IF client.reader.pc = "await" /\ r.pc \in {"yield", "done"}
                   THEN AfterCall(heard, CallOutcome(r)) ELSE heard
    IN  IF chunk = Fin
        THEN OnClose([settled EXCEPT !.rEnded = TRUE, !.wEnded = TRUE,
                                     !.closed = TRUE])
        ELSE settled

\* The client socket takes the next chunk from the service, or its FIN
\* (before the first next() the socket is paused and keeps the text).
ClientRecv(c) ==
    /\ ~Busy
    /\ s2c[c] # <<>>
    /\ ~cl[c].closed
    /\ cl[c].reader.pc # "start" \/ Head(s2c[c]) = Fin
    /\ s2c' = [s2c EXCEPT ![c] = Tail(@)]
    /\ \E r \in {ClientReaderHears(cl[c].reader, Head(s2c[c]))} :
       \E after \in {ClientHear(cl[c], r, Head(s2c[c]))} :
          /\ cl' = [cl EXCEPT ![c] = after]
          /\ c2s' = [c2s EXCEPT ![c] = SendFin(@, cl[c], after)]
    /\ UNCHANGED <<service, connections, whenStops, srv>>
    /\ UNCHANGED notSys

\* Line 233-234: the close awaited has come.
ClientReturn(c) ==
    /\ ~Busy
    /\ cl[c].pc = "closing"
    /\ cl[c].closed
    /\ cl' = [cl EXCEPT ![c] = [@ EXCEPT !.pc = "returned"]]
    /\ UNCHANGED <<service, connections, whenStops, srv, c2s, s2c>>
    /\ UNCHANGED notSys

\* The async function of line 141 has no catch: when the loop ends by a
\* raise, its promise is rejected and nothing handles the rejection.  A
\* runtime whose unhandled-rejections mode is warn goes on; one whose mode
\* is throw (the default of the newer runtimes) exits the process.
UnhandledRejection == {"warn", "exit"}

\* What the runtime may do once a socket has gone from `before` to `after`.
Fates(before, after) ==
    IF before.loop = "running" /\ after.loop = "dead"
    THEN UnhandledRejection ELSE {"none"}

\* The sockets once the process has exited: all closed.
Exited(socks) ==
    [c \in Conns |->
        IF socks[c].accepted
        THEN [socks[c] EXCEPT !.wEnded = TRUE, !.closed = TRUE,
                              !.loop = IF @ = "running" THEN "dead" ELSE @]
        ELSE socks[c]]

\* The service once the process has exited: it emits nothing any more.
ExitedService(svc) ==
    [svc EXCEPT !.exited = TRUE, !.listening = FALSE,
                !.closeScheduled = FALSE]

\* The generator of an accepted socket once the socket has taken `chunk`
\* from the client.  A chunk of text is 'data', a FIN is 'end'; the
\* generator hears either only while it is suspended in the race.
ServerReaderHears(sock, chunk) ==
    IF sock.reader.pc # "await" THEN sock.reader
    ELSE IF chunk = Fin THEN ReaderOnEnd(sock.reader)
    ELSE ReaderOnData(sock.reader, chunk, TRUE, sock.id)

\* The accepted socket once it has taken `chunk`, its generator being at
\* `r` now: the loop ends when the generator is done, and by a raise when
\* the generator raises; on a FIN the socket ends its own side and closes.
ServerHear(sock, r, chunk) ==
    LET heard == [sock EXCEPT
                     !.reader = r,
                     !.loop = IF @ # "running" THEN @
                              ELSE IF r.pc = "done" THEN "ended"
                              ELSE IF r.pc = "threw" THEN "dead" ELSE @]
    IN  IF chunk = Fin
        THEN [heard EXCEPT !.rEnded = TRUE, !.wEnded = TRUE, !.closed = TRUE]
        ELSE heard

\* The accepted socket takes the next chunk from the client, or its FIN
\* (line 111 removes the connection from the set on 'end'); the server
\* emits 'close' if the socket's close drains it.
ServerRecv(c) ==
    /\ ~Busy
    /\ c2s[c] # <<>>
    /\ srv[c].accepted
    /\ ~srv[c].closed
    /\ c2s' = [c2s EXCEPT ![c] = Tail(@)]
    /\ \E r \in {ServerReaderHears(srv[c], Head(c2s[c]))} :
       \E after \in {ServerHear(srv[c], r, Head(c2s[c]))} :
       \E fate \in Fates(srv[c], after) :
          IF fate = "exit"
          THEN /\ srv' = Exited([srv EXCEPT ![c] = after])
               /\ s2c' = [d \in Conns |-> SendFin(s2c[d], srv[d], srv'[d])]
               /\ service' = ExitedService(service)
          ELSE /\ srv' = [srv EXCEPT ![c] = after]
               /\ s2c' = [s2c EXCEPT ![c] = SendFin(@, srv[c], after)]
               /\ service' = [service EXCEPT !.closeScheduled =
                                                 @ \/ (Head(c2s[c]) = Fin
                                                       /\ Drained(service, srv'))]
    /\ connections' = IF Head(c2s[c]) = Fin THEN connections \ {c}
                      ELSE connections
    /\ UNCHANGED <<whenStops, cl>>
    /\ UNCHANGED notSys

\* The accepted socket once the transport has failed under it: 'error' and
\* then 'close', and no 'end'.  A generator suspended in the race hears the
\* 'error' through the listeners of its once() calls and raises, which ends
\* the loop by a raise.
Broken(sock) ==
    [sock EXCEPT !.closed = TRUE, !.wEnded = TRUE,
                 !.reader = IF sock.loop = "running"
                            THEN [@ EXCEPT !.pc = "threw", !.value = Null]
                            ELSE @,
                 !.loop = IF @ = "running" THEN "dead" ELSE @]

\* What the runtime may do at the 'error' of an accepted socket: the raise
\* of a running loop is an unhandled rejection; where no loop is running
\* the socket has no 'error' listener at all and the emit is an uncaught
\* exception, which exits the process.
ErrorFates(before, after) ==
    IF before.loop = "running" THEN Fates(before, after) ELSE {"exit"}

\* The transport of an accepted connection fails (the peer's process is
\* killed with responses unread, or the network resets the connection):
\* what was in flight is lost, the client is gone, and the accepted socket
\* emits 'error' and 'close' without 'end', so line 111 does not run.
TransportError(c) ==
    /\ ~Busy
    /\ ~service.exited
    /\ srv[c].accepted
    /\ ~srv[c].closed
    /\ cl[c].pc # "returned"
    /\ cl' = [cl EXCEPT ![c] = [@ EXCEPT !.pc = "killed", !.closed = TRUE,
                                        !.wEnded = TRUE]]
    /\ c2s' = [c2s EXCEPT ![c] = <<>>]
    /\ \E after \in {Broken(srv[c])} :
       \E fate \in ErrorFates(srv[c], after) :
          IF fate = "exit"
          THEN /\ srv' = Exited([srv EXCEPT ![c] = after])
               /\ s2c' = [d \in Conns |->
                             IF d = c THEN <<>>
                             ELSE SendFin(s2c[d], srv[d], srv'[d])]
               /\ service' = ExitedService(service)
          ELSE /\ srv' = [srv EXCEPT ![c] = after]
               /\ s2c' = [s2c EXCEPT ![c] = <<>>]
               /\ service' = [service EXCEPT !.closeScheduled =
                                                 @ \/ Drained(service, srv')]
    /\ UNCHANGED <<connections, whenStops>>
    /\ UNCHANGED notSys

\* The socket after one iteration of the loop body, the handler doing
\* `outcome`, and the text written.  A write on a socket whose end() has
\* been called is refused with ERR_STREAM_WRITE_AFTER_END, and the only
\* 'error' listeners an accepted socket has are those of the generator's
\* once(): the error comes out of write() or of the generator's race, and
\* in either case the loop ends by a raise.
DispatchOn(sock, outcome) ==
    LET step == DispatchStep(sock, outcome)
    IN  IF sock.wEnded /\ step.out # <<>>
        THEN [sock |-> [sock EXCEPT !.handled = step.sock.handled,
                                    !.loop = "dead",
                                    !.refused = @ + 1],
              out |-> <<>>]
        ELSE step

\* The loop body of lines 143-147 runs on the request just yielded.
Dispatch(c, outcome) ==
    /\ ~service.exited
    /\ srv[c].loop = "running"
    /\ srv[c].reader.pc = "yield"
    /\ \E step \in {DispatchOn(srv[c], outcome)} :
       \E fate \in Fates(srv[c], step.sock) :
          LET written == IF step.out = <<>> THEN s2c
                         ELSE [s2c EXCEPT ![c] = Append(@, step.out)]
          IN  IF fate = "exit"
              THEN /\ srv' = Exited([srv EXCEPT ![c] = step.sock])
                   /\ s2c' = [d \in Conns |->
                                 SendFin(written[d], srv[d], srv'[d])]
                   /\ service' = ExitedService(service)
              ELSE /\ srv' = [srv EXCEPT ![c] = step.sock]
                   /\ s2c' = written
                   /\ UNCHANGED service
    /\ UNCHANGED <<connections, whenStops, cl, c2s>>
    /\ UNCHANGED notSys

\* service.stop(signal), lines 135-138.
Stop ==
    /\ ~Busy
    /\ ~service.exited
    /\ service.stopCalls < MaxStops
    /\ srv' = [c \in Conns |->
                  IF c \in connections /\ ~srv[c].closed
                  THEN [srv[c] EXCEPT !.wEnded = TRUE] ELSE srv[c]]
    /\ s2c' = [c \in Conns |-> SendFin(s2c[c], srv[c], srv'[c])]
    /\ service' = [service EXCEPT
                      !.listening = FALSE,
                      !.closeCbs = @ + 1,
                      !.stopCalls = @ + 1,
                      !.stopped = IF service.stopCalls = 0 THEN connections
                                  ELSE @,
                      !.closeScheduled =
                          @ \/ Drained([service EXCEPT !.listening = FALSE],
                                       srv)]
    /\ UNCHANGED <<connections, whenStops, cl, c2s>>
    /\ UNCHANGED notSys

\* The server emits 'close': every callback registered by close() emits
\* 'stop' (line 136), which resolves the pending whenStop() promises.
ServiceClose ==
    /\ ~Busy
    /\ service.closeScheduled
    /\ service' = [service EXCEPT !.closeScheduled = FALSE,
                                  !.stops = @ + service.closeCbs,
                                  !.closeCbs = 0]
    /\ whenStops' = [p \in Promises |->
                        IF service.closeCbs > 0 /\ whenStops[p] \in {"pending", "late"}
                        THEN "resolved" ELSE whenStops[p]]
    /\ UNCHANGED <<connections, cl, srv, c2s, s2c>>
    /\ UNCHANGED notSys

\* service.whenStop(), line 151: a new promise, pending on the next 'stop'
\* ("late" marks one made after a 'stop' has been emitted).
WhenStop(p) ==
    /\ ~Busy
    /\ ~service.exited
    /\ whenStops[p] = "none"
    /\ whenStops' = [whenStops EXCEPT ![p] =
                        IF service.stops > 0 THEN "late" ELSE "pending"]
    /\ UNCHANGED <<service, connections, cl, srv, c2s, s2c>>
    /\ UNCHANGED notSys

Next ==
    \/ \E c \in Conns, shape \in Shapes : ClientStart(c, shape)
    \/ \E c \in Conns : Connect(c)
    \/ \E c \in Conns : ConnectFail(c)
    \/ \E c \in Conns : DriverCall(c)
    \/ \E c \in Conns :
          DriverSettle(c, Resolved("done"))
    \/ \E c \in Conns :
          DriverSettle(c, Raised([name |-> "Error", message |-> "driver",
                                  stack |-> ""]))
    \/ \E c \in Conns : RlLine(c)
    \/ \E c \in Conns : RlClose(c)
    \/ \E c \in Conns : ClientRecv(c)
    \/ \E c \in Conns : ClientReturn(c)
    \/ \E c \in Conns : ServerRecv(c)
    \/ \E c \in Conns : TransportError(c)
    \/ \E c \in Conns, outcome \in HandlerOutcomes : Dispatch(c, outcome)
    \/ Stop
    \/ ServiceClose
    \/ \E p \in Promises : WhenStop(p)

\* ======================================================================
\* DispatchSpec: the dispatch loop of one accepted connection, whose peer
\* sends any stream of frames, cut into chunks at arbitrary places.
\* ======================================================================
\* The connection the peer has made.
Peer == 1

\* The service listens and has accepted the peer's connection (lines
\* 109-128); the loop of line 142 awaits the first request.
DsInit ==
    /\ rdWhole \in RdStreams
    /\ rdInput = rdWhole
    /\ rdBound = TRUE
    /\ reader = NewReader
    /\ yielded = <<>>
    /\ rdEnded = FALSE
    /\ rdMidFrame = FALSE
    /\ service = [listening |-> TRUE, closeCbs |-> 0, closeScheduled |-> FALSE,
                  stops |-> 0, stopCalls |-> 0, connCount |-> 1,
                  stopped |-> {}, exited |-> FALSE]
    /\ connections = {Peer}
    /\ whenStops = [p \in Promises |-> "none"]
    /\ cl = [c \in Conns |-> NewClient]
    /\ srv = [c \in Conns |->
                 IF c = Peer
                 THEN [NewSocket EXCEPT !.accepted = TRUE,
                                        !.id = CounterId(ServiceId, 0, 16),
                                        !.reader = ReaderNext(NewReader, TRUE, ""),
                                        !.loop = "running"]
                 ELSE NewSocket]
    /\ c2s = [c \in Conns |-> <<>>]
    /\ s2c = [c \in Conns |-> <<>>]

\* The peer writes the next k lexemes of its stream.
DsSend(k) ==
    /\ ~Busy
    /\ k <= Len(rdInput)
    /\ c2s' = [c2s EXCEPT ![Peer] = Append(@, SubSeq(rdInput, 1, k))]
    /\ rdInput' = SubSeq(rdInput, k + 1, Len(rdInput))
    /\ UNCHANGED <<rdWhole, rdBound, reader, yielded, rdEnded, rdMidFrame>>
    /\ UNCHANGED <<service, connections, whenStops, cl, srv, s2c>>
    /\ UNCHANGED <<codecVars, ctrVars>>

\* The peer ends its side once it has written its stream.
DsEnd ==
    /\ ~Busy
    /\ rdInput = <<>>
    /\ ~rdEnded
    /\ rdEnded' = TRUE
    /\ c2s' = [c2s EXCEPT ![Peer] = Append(@, Fin)]
    /\ UNCHANGED <<rdWhole, rdInput, rdBound, reader, yielded, rdMidFrame>>
    /\ UNCHANGED <<service, connections, whenStops, cl, srv, s2c>>
    /\ UNCHANGED <<codecVars, ctrVars>>

DsNext ==
    \/ \E k \in 1..Len(rdInput) : DsSend(k)
    \/ DsEnd
    \/ ServerRecv(Peer)
    \/ \E outcome \in HandlerOutcomes : Dispatch(Peer, outcome)

\* The text the service has taken from the peer's socket.
DsTaken ==
    LET RECURSIVE Flat(_)
        Flat(q) == IF q = <<>> THEN <<>>
                   ELSE (IF Head(q) = Fin THEN <<>> ELSE Head(q)) \o Flat(Tail(q))
        sent == SubSeq(rdWhole, 1, Len(rdWhole) - Len(rdInput))
    IN  SubSeq(sent, 1, Len(sent) - Len(Flat(c2s[Peer])))

\* C2: the loop of the connection never ends but by the end of the stream;
\* whenever it awaits the next request, the handler has been invoked once
\* for each frame taken so far, in order, and for each of them one response
\* has been written, carrying the id that request was given.
C2_EveryRequestAnswered ==
    LET sock == srv[Peer]
        frames == RawFrames(DsTaken, <<>>)
    IN  /\ sock.loop \in {"running", "ended"}
        /\ (sock.loop = "running" /\ sock.reader.pc = "await") =>
              /\ Len(sock.handled) = Len(frames)
              /\ Len(s2c[Peer]) = Len(frames)
              /\ \A i \in 1..Len(frames) :
                    /\ WithoutId(sock.handled[i].request)
                          = WithoutId(FrameMessage(frames[i]))
                    /\ LET response ==
                               JSONParse(SubSeq(s2c[Peer][i], 1,
                                                Len(s2c[Peer][i]) - 1))
                       IN  Get(response, "id")
                             = CounterId(sock.id, i - 1, 16)

\* ======================================================================
\* Claims on Spec
\* ======================================================================
\* The response the loop body makes for a logged request (lines 143-146).
ResponseFor(h) ==
    Assign([id |-> Get(h.request, "id")],
           HandlerResponse(h.outcome, TraceErrors))

\* The call has settled on a response frame: end of stream settles a call
\* with null, which no handler outcome of HandlerOutcomes yields.
SettledByFrame(call) ==
    call.outcome.kind # "pending" /\ call.outcome # Resolved(JNull)

\* C1: on every connection, each call that a response has settled is
\* matched, position by position, by one request the handler was invoked
\* with: the i-th request handled carries the body of the i-th call, and
\* the i-th call has settled with what the response made for that very
\* request decodes to (for a returned value: that value).
C1_SequentialCallsInOrder ==
    \A c \in Conns : \A i \in 1..Len(cl[c].calls) :
        SettledByFrame(cl[c].calls[i]) =>
            /\ i <= Len(srv[c].handled)
            /\ Get(srv[c].handled[i].request, "body") = cl[c].calls[i].body
            /\ Get(srv[c].handled[i].request, "id")
                  = CounterId(srv[c].id, i - 1, 16)
            /\ cl[c].calls[i].outcome
                  = CallOutcome([pc |-> "yield",
                                 value |-> ResponseFor(srv[c].handled[i])])
            /\ srv[c].handled[i].outcome.kind = "return" =>
                  cl[c].calls[i].outcome
                      = Resolved(srv[c].handled[i].outcome.value)

\* Two calls of one driver have settled, on different handler outcomes.
C1_Witness ==
    \E c \in Conns :
        /\ cl[c].shape = "driver"
        /\ Len(cl[c].calls) >= 2
        /\ SettledByFrame(cl[c].calls[1]) /\ SettledByFrame(cl[c].calls[2])
        /\ srv[c].handled[1].outcome.kind = "throw"
        /\ srv[c].handled[2].outcome.kind = "return"
        /\ cl[c].calls[1].outcome.kind = "raised"
        /\ cl[c].calls[2].outcome = Resolved("ok")

\* C5: a call settled by the response to a request raises when the handler
\* threw on that request, whatever it threw, and resolves with the value
\* the handler returned when it returned.
C5_ThrowRaisesReturnResolves ==
    \A c \in Conns : \A i \in 1..Len(cl[c].calls) :
        (SettledByFrame(cl[c].calls[i]) /\ i <= Len(srv[c].handled)) =>
            LET h == srv[c].handled[i].outcome
                o == cl[c].calls[i].outcome
            IN  /\ h.kind = "throw" => o.kind = "raised"
                /\ h.kind = "return" => o = Resolved(h.value)

\* C7: a requestService invocation whose connect attempt has failed has
\* resolved with undefined, has not invoked the caller, has made no call
\* and has written nothing; the service has not accepted it.
C7_ConnectFailureIsNoResult ==
    \A c \in Conns :
        (cl[c].pc \notin {"init", "connecting"} /\ ~cl[c].isConnected) =>
            /\ cl[c].pc = "returned"
            /\ cl[c].result = Resolved(Undef)
            /\ ~cl[c].callerInvoked
            /\ cl[c].calls = <<>>
            /\ c2s[c] = <<>>
            /\ ~srv[c].accepted

\* The connect attempt of an invocation on a line source has failed.
C7_Witness ==
    \E c \in Conns :
        /\ cl[c].shape = "interactive"
        /\ cl[c].pc = "returned"
        /\ ~cl[c].isConnected
        /\ cl[c].closed

\* C8: once requestService has settled on a connection that was
\* established, the client socket has been ended and has closed.
C8_ClosedOnceSettled ==
    \A c \in Conns :
        (cl[c].pc = "returned" /\ cl[c].isConnected) =>
            cl[c].wEnded /\ cl[c].closed

\* ----------------------------------------------------------------- C12
\* C12: once a client's stream has signalled end-of-input, no pull on its
\* Frame Reader is left pending: a pull that was pending, and any pull made
\* later, has completed (a completing pull does so within the step that
\* makes it, and after the end the socket emits nothing more), also when
\* the end came while the reader was not started or was at a yield.
C12_NoPullPendsAfterEnd ==
    \A c \in Conns :
       cl[c].rEnded => cl[c].reader.pc \notin {"await", "threw"}

\* ----------------------------------------------------------------- C15
\* A connection is live from its acceptance until its socket has closed.
Live(c) == srv[c].accepted /\ ~srv[c].closed

\* C15: while the service's process runs, the membership set holds
\* exactly the live connections: each is in it from its acceptance on and
\* out of it once it has terminated, by an end or by a transport error.
C15_MembershipIsLiveConnections ==
    ~service.exited => connections = {c \in Conns : Live(c)}

\* ----------------------------------------------------------------- C16
\* The invocations whose interactive adapter has been invoked.
Adapters == {c \in Conns : cl[c].shape = "interactive" /\ cl[c].callerInvoked}

\* C16: for an interactive adapter whose connection closed while the line
\* source was open, the notice has been printed exactly once and no call
\* is issued once the connection has closed; for one whose line source
\* closed while the connection was open, the notice is never printed.
C16_NoticeOnceIffConnectionFirst ==
    /\ [](\A c \in Adapters :
            /\ cl[c].closedFirst = "connection" => cl[c].notices = 1
            /\ cl[c].closedFirst = "rl" => cl[c].notices = 0)
    /\ [][\A c \in Adapters :
            cl[c].closed => Len(cl'[c].calls) = Len(cl[c].calls)]_vars

\* The connection of an adapter that has made a call closed before the
\* line source, the notice has been printed, and the invocation returned.
C16_Witness ==
    \E c \in Adapters :
       /\ cl[c].closedFirst = "connection"
       /\ Len(cl[c].calls) >= 1
       /\ cl[c].notices = 1
       /\ cl[c].pc = "returned"

\* ----------------------------------------------------------------- C18
\* C18: the service makes no sendResult write on a connection whose write
\* side it has ended: a request handled after stop() has ended the
\* connection is not answered.
C18_NoWriteAfterEnd ==
    \A c \in Conns : srv[c].refused = 0

\* ----------------------------------------------------------------- C19
\* C19: when the client's stream signals end-of-input while a call is
\* outstanding, the step that delivers the end settles that call, and it
\* settles it resolved with null, which is also what a response whose
\* body is null settles a call with.
C19_EndSettlesCallWithNull ==
    [][\A c \in Conns :
          (cl[c].pc = "calling" /\ ~cl[c].rEnded /\ cl'[c].rEnded) =>
             LET n == Len(cl[c].calls)
             IN  /\ cl[c].calls[n].outcome = Pending
                 /\ cl'[c].calls[n].outcome = Resolved(JNull)
                 /\ cl'[c].calls[n].outcome
                       = CallOutcome([pc |-> "yield",
                                      value |-> [body |-> JNull]])]_vars

\* A driver's second call was outstanding and unanswered when the stream
\* ended: it has resolved with null, after a first call that a response
\* settled.
C19_Witness ==
    \E c \in Conns :
       /\ cl[c].rEnded
       /\ Len(cl[c].calls) = 2
       /\ SettledByFrame(cl[c].calls[1])
       /\ cl[c].calls[2].outcome = Resolved(JNull)
       /\ Len(srv[c].handled) = 1

\* ----------------------------------------------------------------- C20
\* C20: the service emits 'stop' at most once, however many times stop()
\* is invoked and however the invocations interleave with the closing of
\* connections.
C20_StopEmittedAtMostOnce ==
    service.stops <= 1

\* ======================================================================
\* Claims on FairSpec
\* ======================================================================
\* C3: once stop() has been invoked, no connection is accepted any more;
\* every connection that was in the membership set at the first stop() has
\* been ended and eventually closes; 'stop' is eventually emitted, and a
\* whenStop() promise that is pending then is eventually resolved.
C3_StopEndsAndNotifies ==
    /\ [][service.stopCalls > 0 =>
            \A c \in Conns : srv'[c].accepted = srv[c].accepted]_vars
    /\ [](\A c \in service.stopped : srv[c].wEnded)
    /\ \A c \in Conns : (c \in service.stopped) ~> srv[c].closed
    /\ (service.stopCalls > 0) ~> (service.stops > 0)
    /\ \A p \in Promises :
          (whenStops[p] = "pending" /\ service.stopCalls > 0)
              ~> (whenStops[p] = "resolved")

\* C4: a promise made by whenStop() after 'stop' has been emitted is
\* eventually resolved.
C4_LateWhenStopResolves ==
    \A p \in Promises : (whenStops[p] = "late") ~> (whenStops[p] = "resolved")

\* C17: once the line source of an invoked interactive adapter has closed,
\* whenever that happened, the adapter's loop eventually stops: the
\* adapter settles and requestService goes on to close the connection.
C17_ClosedLineSourceStopsAdapter ==
    \A c \in Conns :
       [](c \in Adapters /\ cl[c].rlClosed
            => <>(cl[c].pc \in {"closing", "returned", "killed"}))

\* ======================================================================
\* CounterSpec: Id Generator instances and their invocations
\* ======================================================================
Gens == {"g1", "g2"}
Radixes == {2, 10, 16}
Prefixes == {Undef, "", "s"}

\* No generator of this part has been made: the other specifications.
CtrIdle ==
    /\ gens = [g \in Gens |-> counter(10)]
    /\ issued = [g \in Gens |-> <<>>]

\* Each instance is the result of one counter(radix) call.
CtrInit ==
    /\ gens \in [Gens -> {counter(radix) : radix \in Radixes}]
    /\ issued = [g \in Gens |-> <<>>]

\* gen(prefix) on the instance g.
CtrInvoke(g, prefix) ==
    /\ Len(issued[g]) < MaxIds
    /\ \E call \in {CounterCall(gens[g], prefix)} :
          /\ gens' = [gens EXCEPT ![g] = call.gen]
          /\ issued' = [issued EXCEPT ![g] =
                           Append(@, [prefix |-> prefix, id |-> call.id,
                                      digits |-> call.digits])]
    /\ UNCHANGED notCtr

CtrNext == \E g \in Gens, prefix \in Prefixes : CtrInvoke(g, prefix)

\* ----------------------------------------------------------------- C11
RECURSIVE RadixValue(_, _)
\* The number a digit sequence denotes in the radix.
RadixValue(ds, radix) ==
    IF ds = <<>> THEN 0
    ELSE RadixValue(SubSeq(ds, 1, Len(ds) - 1), radix) * radix + ds[Len(ds)]

\* C11: the k-th invocation of one Id Generator instance, whatever the
\* prefixes, returns the prefix part followed by k-1 rendered in the
\* radix, so the counter parts are 0, 1, 2, ... strictly increasing with
\* no repeats; and an instance's count is the number of its own
\* invocations, unchanged by invocations of another instance.
C11_CounterPartsIncrease ==
    /\ [] \A g \in Gens :
          /\ gens[g].count = Len(issued[g])
          /\ \A k \in 1..Len(issued[g]) :
                LET e == issued[g][k]
                IN  /\ \A d \in 1..Len(e.digits) :
                          e.digits[d] \in 0..(gens[g].radix - 1)
                    /\ Len(e.digits) > 1 => e.digits[1] # 0
                    /\ RadixValue(e.digits, gens[g].radix) = k - 1
                    /\ e.id = Lead(e.prefix) \o Rendered(e.digits)
                    /\ \A j \in 1..(k - 1) :
                          /\ Rendered(issued[g][j].digits) # Rendered(e.digits)
                          /\ RadixValue(issued[g][j].digits, gens[g].radix)
                               < RadixValue(e.digits, gens[g].radix)
    /\ [][\A g \in Gens : issued'[g] = issued[g] => gens'[g] = gens[g]]_vars

\* One instance in radix 2 has been invoked three times with different
\* prefixes (its third id is s.10) while the other has been invoked once.
C11_Witness ==
    \E g, h \in Gens :
       /\ g # h
       /\ gens[g].radix = 2
       /\ Len(issued[g]) = 3
       /\ issued[g][1].prefix # issued[g][3].prefix
       /\ issued[g][3].id = "s.10"
       /\ Len(issued[h]) = 1
       /\ gens[h].count = 1

\* ======================================================================
\* The specifications
\* ======================================================================
\* Each specification starts the part of the state it runs and leaves the
\* rest idle.
ReaderInit == RdInit /\ CodecIdle /\ SysIdle /\ CtrIdle
ReaderSpec == ReaderInit /\ [][RdNext]_vars

DispatchInit == DsInit /\ CodecIdle /\ CtrIdle
DispatchSpec == DispatchInit /\ [][DsNext]_vars

CodecStart == CodecInit /\ RdIdle /\ SysIdle /\ CtrIdle
CodecSpec == CodecStart /\ [][CodecNext]_vars

CounterInit == CtrInit /\ RdIdle /\ CodecIdle /\ SysIdle
CounterSpec == CounterInit /\ [][CtrNext]_vars

Init == SysInit /\ RdIdle /\ CodecIdle /\ CtrIdle
Spec == Init /\ [][Next]_vars

\* What the event loop and the network do is done eventually; what the
\* drivers, the operators and the owner of the service do may never be.
Fairness ==
    /\ \A c \in Conns :
          /\ WF_vars(ClientRecv(c))
          /\ WF_vars(ClientReturn(c))
          /\ WF_vars(ServerRecv(c))
          /\ WF_vars(\E outcome \in HandlerOutcomes : Dispatch(c, outcome))
    /\ WF_vars(ServiceClose)

FairSpec == Spec /\ Fairness

====
